---- MODULE Spec2Model ----
(***************************************************************************)
(* Model of sma_config_tracker.py (BareboxConfigTracker and main).         *)
(*                                                                         *)
(* Text is modelled at the character level: a string is a sequence of      *)
(* one-character strings, so that matching, splitting, joining, sorting    *)
(* and path handling are computed the way the script computes them.        *)
(***************************************************************************)
EXTENDS Naturals, Sequences, FiniteSets

VARIABLES
    configLines,     \* content of the file given as --config, one entry per line
    configExists,    \* whether the --config path exists
    sourceIsDir,     \* whether the --source path exists and is a directory
    tree,            \* the tracked files below the source tree root
    sourceKind,      \* how --source was given: "abs", "dot" (".") or "rel"
    cwd,             \* process working directory, as a depth (see Chdir)
    pc,              \* position of main / of the called method
    config_options,  \* BareboxConfigTracker.config_options (insertion ordered)
    idx,             \* loop counter i of analyze_configuration
    results,         \* the results dict of analyze_configuration (insertion ordered)
    outcomes,        \* history: what the search of each scanned option did
    cwdAt,           \* history: working directory at each scanned option's search
    report,          \* rows of the output file, NotWritten before it is opened
    exitCode,        \* process exit status, NoExit while running
    abortedIn,       \* history: the pc at which the run was aborted
    reparsed,        \* result of a second parse_config_file call
    kOption,         \* kconfig_analysis: its config_option argument
    kPattern,        \* kconfig_analysis: index of the next pattern to search
    kFiles,          \* kconfig_analysis: its local set files
    kOutcomes,       \* history: what each find invocation of the call did
    kReturn          \* kconfig_analysis: NoReturn, "returned" or "raised"

vars == <<configLines, configExists, sourceIsDir, tree, sourceKind, cwd, pc,
          config_options, idx, results, outcomes, cwdAt, report, exitCode,
          abortedIn, reparsed, kOption, kPattern, kFiles, kOutcomes, kReturn>>

mainVars == <<configExists, sourceIsDir, tree, sourceKind, cwd, idx, results,
              outcomes, cwdAt, report, exitCode, abortedIn>>

kconfigVars == <<kOption, kPattern, kFiles, kOutcomes, kReturn>>

-----------------------------------------------------------------------------
(* Bounds of the model.                                                    *)

\* longest configuration file, in lines, of the parser specification
MaxParseLines == 2

\* longest configuration file, in lines, of a whole run
MaxRunLines == 2

-----------------------------------------------------------------------------
(* Characters and strings.                                                 *)

Chars(s) == [i \in 1..Len(s) |-> SubSeq(s, i, i)]

Upper == {"A","B","C","D","E","F","G","H","I","J","K","L","M",
          "N","O","P","Q","R","S","T","U","V","W","X","Y","Z"}

Lower == {"a","b","c","d","e","f","g","h","i","j","k","l","m",
          "n","o","p","q","r","s","t","u","v","w","x","y","z"}

Digits == {"0","1","2","3","4","5","6","7","8","9"}

\* the characters str.strip() removes (the ASCII ones)
Whitespace == {" ", "\t", "\n", "\r", "\f"}

\* the ASCII characters the model uses, in code point order
AsciiOrder ==
    Chars("\t\n\f\r #$()+-./0123456789:;=ABCDEFGHIJKLMNOPQRSTUVWXYZ_abcdefghijklmnopqrstuvwxyz")

\* ord(c), up to an order-preserving renumbering
Ord(c) == CHOOSE i \in 1..Len(AsciiOrder) : AsciiOrder[i] = c

\* s < t for Python strings: lexicographic by code point
RECURSIVE StrLess(_, _)
StrLess(s, t) ==
    IF t = <<>> THEN FALSE
    ELSE IF s = <<>> THEN TRUE
    ELSE IF Head(s) # Head(t) THEN Ord(Head(s)) < Ord(Head(t))
    ELSE StrLess(Tail(s), Tail(t))

\* s.startswith(p)
StartsWith(s, p) == Len(s) >= Len(p) /\ SubSeq(s, 1, Len(p)) = p

\* p in s
Contains(s, p) == \E i \in 1..(Len(s) + 1) : StartsWith(SubSeq(s, i, Len(s)), p)

\* s.lstrip(), s.rstrip(), s.strip() with no argument
RECURSIVE LStrip(_)
LStrip(s) == IF s # <<>> /\ Head(s) \in Whitespace THEN LStrip(Tail(s)) ELSE s

RECURSIVE RStrip(_)
RStrip(s) ==
    IF s # <<>> /\ s[Len(s)] \in Whitespace THEN RStrip(SubSeq(s, 1, Len(s) - 1)) ELSE s

Strip(s) == RStrip(LStrip(s))

\* sorted(list(S)) for a set S of strings
RECURSIVE Sorted(_)
Sorted(S) ==
    IF S = {} THEN <<>>
    ELSE LET m == CHOOSE x \in S : \A y \in S \ {x} : StrLess(x, y)
         IN  <<m>> \o Sorted(S \ {m})

-----------------------------------------------------------------------------
(* parse_config_file                                                       *)

ConfigPrefix == Chars("CONFIG_")

\* the character class [A-Z_0-9]
IsNameChar(c) == c \in Upper \cup Digits \cup {"_"}

\* last index of the greedy run [A-Z_0-9]* that starts at index i (i - 1 if empty)
RECURSIVE NameRunEnd(_, _)
NameRunEnd(s, i) ==
    IF i <= Len(s) /\ IsNameChar(s[i]) THEN NameRunEnd(s, i + 1) ELSE i - 1

\* re.match(r'^(CONFIG_[A-Z_0-9]+)(?:=(.+))?$', line): the match and its two
\* groups; group 2 is <<>> when the optional part did not take part (None).
\* '=' is outside the class, so no shorter run than the greedy one can match.
MatchConfigLine(line) ==
    LET e == NameRunEnd(line, Len(ConfigPrefix) + 1)
        named == StartsWith(line, ConfigPrefix) /\ e > Len(ConfigPrefix)
        rest == SubSeq(line, e + 2, Len(line))
    IN  IF named /\ e = Len(line)
          THEN [ok |-> TRUE, option |-> line, value |-> <<>>]
        ELSE IF named /\ line[e + 1] = "=" /\ rest # <<>> /\ ~Contains(rest, <<"\n">>)
          THEN [ok |-> TRUE, option |-> SubSeq(line, 1, e), value |-> rest]
        ELSE [ok |-> FALSE, option |-> <<>>, value |-> <<>>]

\* DictSet with the first value of a key kept (first write wins)
DictSetKeepFirst(d, option, value) ==
    IF \E i \in 1..Len(d) : d[i].option = option THEN d
    ELSE Append(d, [option |-> option, value |-> value])

\* config_options[option] = value on an insertion-ordered dict: an existing key
\* keeps its position and takes the new value, a new key is appended
DictSet(d, option, value) ==
    IF \E i \in 1..Len(d) : d[i].option = option
      THEN [i \in 1..Len(d) |->
               IF d[i].option = option THEN [option |-> option, value |-> value]
               ELSE d[i]]
      ELSE Append(d, [option |-> option, value |-> value])

\* the body of the for loop over the lines of the file
ParseLine(d, rawLine) ==
    LET line == Strip(rawLine)
        m == MatchConfigLine(line)
    IN  IF line = <<>> \/ Head(line) = "#" THEN d
        ELSE IF m.ok
          THEN DictSet(d, m.option, IF m.value # <<>> THEN m.value ELSE <<"y">>)
        ELSE d

RECURSIVE ParseLines(_, _, _)
ParseLines(lines, i, d) ==
    IF i > Len(lines) THEN d
    ELSE ParseLines(lines, i + 1, ParseLine(d, lines[i]))

ParseConfigFile(lines) == ParseLines(lines, 1, <<>>)

-----------------------------------------------------------------------------
(* str.split, str.join and pathlib.Path                                    *)

\* index of the first occurrence of sep in s at or after i, 0 if there is none
RECURSIVE FindFrom(_, _, _)
FindFrom(s, sep, i) ==
    IF i + Len(sep) - 1 > Len(s) THEN 0
    ELSE IF SubSeq(s, i, i + Len(sep) - 1) = sep THEN i
    ELSE FindFrom(s, sep, i + 1)

\* s.split(sep, maxsplit), maxsplit counted down to 0; Len(s) + 1 splits are
\* never exhausted, which gives s.split(sep)
RECURSIVE SplitMax(_, _, _)
SplitMax(s, sep, maxsplit) ==
    LET at == FindFrom(s, sep, 1)
    IN  IF maxsplit = 0 \/ at = 0 THEN <<s>>
        ELSE <<SubSeq(s, 1, at - 1)>>
             \o SplitMax(SubSeq(s, at + Len(sep), Len(s)), sep, maxsplit - 1)

Split(s, sep) == SplitMax(s, sep, Len(s) + 1)

\* sep.join(list)
RECURSIVE Join(_, _)
Join(list, sep) ==
    IF list = <<>> THEN <<>>
    ELSE IF Len(list) = 1 THEN list[1]
    ELSE list[1] \o sep \o Join(Tail(list), sep)

\* the entries of a sequence that satisfy neither "" nor "."
RECURSIVE PathComponents(_)
PathComponents(list) ==
    IF list = <<>> THEN <<>>
    ELSE IF Head(list) = <<>> \/ Head(list) = <<".">> THEN PathComponents(Tail(list))
    ELSE <<Head(list)>> \o PathComponents(Tail(list))

\* Path(s): a root flag and the components, empty and "." components dropped
Path(s) ==
    [abs |-> s # <<>> /\ Head(s) = "/", parts |-> PathComponents(Split(s, <<"/">>))]

\* Path.parent
PathParent(p) ==
    IF p.parts = <<>> THEN p
    ELSE [abs |-> p.abs, parts |-> SubSeq(p.parts, 1, Len(p.parts) - 1)]

\* p / s: an absolute right operand replaces the left one
PathJoin(p, s) ==
    LET q == Path(s)
    IN  IF q.abs THEN q ELSE [abs |-> p.abs, parts |-> p.parts \o q.parts]

\* str(p)
PathStr(p) ==
    IF p.abs THEN <<"/">> \o Join(p.parts, <<"/">>)
    ELSE IF p.parts = <<>> THEN <<".">>
    ELSE Join(p.parts, <<"/">>)

-----------------------------------------------------------------------------
(* The source tree, the working directory and git grep                     *)

\* the relative path given as --source when sourceKind = "rel"
RelSource == Chars("src")

\* the working directory is a depth: 0 is the directory the process started
\* in when --source is not ".", 1 is the source tree root, and d > 1 is the
\* directory reached from the root by following RelSource d - 1 times

\* the tracked files as seen from depth d, with paths relative to it
RECURSIVE Visible(_, _)
Visible(files, d) ==
    IF d <= 1 THEN files
    ELSE LET prefix == RelSource \o <<"/">>
             above == Visible(files, d - 1)
         IN  {[path |-> SubSeq(f.path, Len(prefix) + 1, Len(f.path)),
               lines |-> f.lines] : f \in {g \in above : StartsWith(g.path, prefix)}}

\* os.chdir(self.source_path) from depth d: whether it succeeds and where
\* the process is afterwards. A relative path is resolved against the
\* current working directory.
Chdir(kind, files, d) ==
    IF kind = "abs" THEN [ok |-> TRUE, cwd |-> 1]
    ELSE IF kind = "dot" THEN [ok |-> TRUE, cwd |-> d]
    ELSE IF d < 1 \/ Visible(files, d + 1) # {}
      THEN [ok |-> TRUE, cwd |-> d + 1]
    ELSE [ok |-> FALSE, cwd |-> d]

\* str(n) for a line number
RECURSIVE ToDecimal(_)
ToDecimal(n) ==
    LET digit == SubSeq(Chars("0123456789"), (n % 10) + 1, (n % 10) + 1)
    IN  IF n < 10 THEN digit ELSE ToDecimal(n \div 10) \o digit

\* whether a line matches the basic regular expression obj-.*<option>
\* (an option name has no character that is special in a pattern)
GrepMatches(line, option) ==
    \E i \in 1..Len(line) :
        /\ StartsWith(SubSeq(line, i, Len(line)), Chars("obj-"))
        /\ Contains(SubSeq(line, i + 4, Len(line)), option)

\* the output lines path:number:content of one file
GrepFile(f, option) ==
    LET hits == {n \in 1..Len(f.lines) : GrepMatches(f.lines[n], option)}
        OutLine(n) == f.path \o <<":">> \o ToDecimal(n) \o <<":">> \o f.lines[n]
        RECURSIVE From(_)
        From(n) ==
            IF n > Len(f.lines) THEN <<>>
            ELSE (IF n \in hits THEN <<OutLine(n)>> ELSE <<>>) \o From(n + 1)
    IN  From(1)

\* stdout of git grep -n <pattern> run at depth d: files in path order, every
\* output line ended by a newline
GitGrepStdout(files, d, option) ==
    LET seen == Visible(files, d)
        paths == Sorted({f.path : f \in seen})
        FileAt(k) == CHOOSE f \in seen : f.path = paths[k]
        RECURSIVE All(_)
        All(k) ==
            IF k > Len(paths) THEN <<>>
            ELSE GrepFile(FileAt(k), option) \o All(k + 1)
        RECURSIVE Text(_)
        Text(ls) == IF ls = <<>> THEN <<>> ELSE Head(ls) \o <<"\n">> \o Text(Tail(ls))
    IN  Text(All(1))

-----------------------------------------------------------------------------
(* find_makefile_objects                                                   *)

\* the character class [a-zA-Z0-9_/-]
IsObjChar(c) == c \in Lower \cup Upper \cup Digits \cup {"_", "/", "-"}

\* last index of the greedy run [a-zA-Z0-9_/-]* that starts at index i
RECURSIVE ObjRunEnd(_, _)
ObjRunEnd(s, i) ==
    IF i <= Len(s) /\ IsObjChar(s[i]) THEN ObjRunEnd(s, i + 1) ELSE i - 1

\* re.findall(r'([a-zA-Z0-9_/-]+\.o)', s) from index i on: leftmost matches,
\* not overlapping. '.' is outside the class, so at a given start only the
\* greedy run can be followed by ".o".
RECURSIVE FindAllObj(_, _)
FindAllObj(s, i) ==
    LET e == ObjRunEnd(s, i)
    IN  IF i > Len(s) THEN <<>>
        ELSE IF e >= i /\ e + 2 <= Len(s) /\ SubSeq(s, e + 1, e + 2) = <<".", "o">>
          THEN <<SubSeq(s, i, e + 2)>> \o FindAllObj(s, e + 3)
        ELSE FindAllObj(s, i + 1)

\* if 'Makefile' in makefile_path or 'makefile' in makefile_path
IsMakefilePath(path) ==
    Contains(path, Chars("Makefile")) \/ Contains(path, Chars("makefile"))

\* ObjectEntry with the directory of the Makefile left out
ObjectEntryBare(makefile_path, obj_file) == obj_file

\* what the loop body adds to files for one object name found in a line
ObjectEntry(makefile_path, obj_file) ==
    LET makefile_dir == PathParent(Path(makefile_path))
    IN  IF makefile_dir = Path(<<".">>) THEN obj_file
        ELSE PathStr(PathJoin(makefile_dir, obj_file))

\* what one line of the output adds to files
LineObjects(line) ==
    LET parts == SplitMax(line, <<":">>, 2)
    IN  IF line # <<>> /\ Contains(line, <<":">>) /\ Len(parts) >= 3
           /\ IsMakefilePath(parts[1])
          THEN LET found == FindAllObj(parts[3], 1)
               IN  {ObjectEntry(parts[1], found[k]) : k \in 1..Len(found)}
        ELSE {}

\* the set files after the loop over result.stdout.split('\n')
StdoutObjects(stdout) ==
    LET ls == Split(stdout, <<"\n">>)
    IN  UNION {LineObjects(ls[k]) : k \in 1..Len(ls)}

\* what the environment can make of one git grep invocation: "run" (git ran
\* the search: exit 0 with matches, 1 without), "error" (git exits with
\* another status, such as 128 outside a repository), "timeout"
\* (TimeoutExpired), "notool" (FileNotFoundError: no git executable) and
\* "baddata" (output that is not valid text: UnicodeDecodeError)
ToolOutcomes == {"run", "error", "timeout", "notool", "baddata"}

\* CaughtOutcomes with the handler of kconfig_analysis: TimeoutExpired only
CaughtOutcomesNarrow == {"timeout"}

\* the exceptions find_makefile_objects catches, as outcomes: except
\* (CalledProcessError, FileNotFoundError, OSError, TimeoutExpired)
CaughtOutcomes == {"chdir_failed", "timeout", "notool"}

\* find_makefile_objects(option) with the working directory at depth d after
\* its chdir: the returned set, for the outcomes that return
FindMakefileObjects(files, d, option, outcome) ==
    LET stdout == GitGrepStdout(files, d, option)
    IN  IF outcome \in CaughtOutcomes THEN {}
        ELSE IF outcome = "run" /\ stdout # <<>> THEN StdoutObjects(stdout)
        ELSE {}

-----------------------------------------------------------------------------
(* analyze_configuration, export_to_csv and main                           *)

\* the report before the output file is opened
NotWritten == <<>>

\* the exit status while the process runs
NoExit == <<>>

\* results[option] = {'value': ..., 'files': sorted(list(...)), 'tracked': False}
Record(option, value, associated_files) ==
    [option |-> option, value |-> value,
     files |-> Sorted(associated_files), tracked |-> FALSE]

\* SortedItems without the sort: the records in insertion order
InsertionOrderItems(res) == res

\* sorted(results.items()): the records in ascending order of their keys
SortedItems(res) ==
    LET keys == Sorted({res[i].option : i \in 1..Len(res)})
    IN  [k \in 1..Len(keys) |-> CHOOSE r \in {res[i] : i \in 1..Len(res)} :
                                    r.option = keys[k]]

HeaderRow == <<Chars("Track Status"), Chars("CONFIG_OPTION"), Chars("Object Files")>>

\* the row export_to_csv writes for one record
ReportRow(data) ==
    <<Chars("NO"), data.option,
      IF data.files # <<>> THEN Join(data.files, Chars("; ")) ELSE <<>>>>

\* the rows export_to_csv writes: the header, then one row per item
ReportRows(res) ==
    LET items == SortedItems(res)
    IN  <<HeaderRow>> \o [k \in 1..Len(items) |-> ReportRow(items[k])]

\* main, lines 302-319: the two path checks and the git rev-parse probe,
\* whose FileNotFoundError (no git executable) only the outer handler catches
Validate ==
    /\ pc = "validate"
    /\ \E probe \in {"repository", "not_a_repository", "notool"} :
          IF configExists /\ sourceIsDir /\ probe # "notool"
            THEN pc' = "analyze" /\ UNCHANGED <<exitCode, abortedIn>>
            ELSE pc' = "rejected" /\ exitCode' = <<1>> /\ abortedIn' = "validate"
    /\ UNCHANGED <<configLines, configExists, sourceIsDir, tree, sourceKind, cwd,
                   config_options, idx, results, outcomes, cwdAt, report,
                   reparsed, kconfigVars>>

\* analyze_configuration up to its loop: self.config_options = parse_config_file()
ParseConfig ==
    /\ pc = "analyze"
    /\ config_options' = ParseConfigFile(configLines)
    /\ idx' = 1
    /\ results' = <<>>
    /\ pc' = IF config_options' = <<>> THEN "export" ELSE "scan"
    /\ UNCHANGED <<configLines, configExists, sourceIsDir, tree, sourceKind, cwd,
                   outcomes, cwdAt, report, exitCode, abortedIn, reparsed,
                   kconfigVars>>

\* StoreRecord that keeps only the options for which objects were found
StoreRecordIfFound(res, entry, found) ==
    IF found = {} THEN res
    ELSE Append(res, Record(entry.option, entry.value, found))

\* results[option] = {...}: the entry one iteration adds to results
StoreRecord(res, entry, found) ==
    Append(res, Record(entry.option, entry.value, found))

\* one iteration of the loop of analyze_configuration: find_associated_files
\* (chdir, git grep, extraction) and the new entry of results; the last
\* iteration returns to main. An exception find_makefile_objects does not
\* catch raises through analyze_configuration to the handler of main
\* (lines 340-342).
ScanOption ==
    /\ pc = "scan"
    /\ idx <= Len(config_options)
    /\ \E tool \in ToolOutcomes :
          LET entry == config_options[idx]
              moved == Chdir(sourceKind, tree, cwd)
              outcome == IF moved.ok THEN tool ELSE "chdir_failed"
              returns == outcome \in {"run", "error"} \cup CaughtOutcomes
              found == FindMakefileObjects(tree, moved.cwd, entry.option, outcome)
          IN  /\ cwd' = moved.cwd
              /\ outcomes' = Append(outcomes, outcome)
              /\ cwdAt' = Append(cwdAt, moved.cwd)
              /\ IF returns
                   THEN /\ results' = StoreRecord(results, entry, found)
                        /\ idx' = idx + 1
                        /\ pc' = IF idx' > Len(config_options) THEN "export" ELSE "scan"
                        /\ UNCHANGED <<exitCode, abortedIn>>
                   ELSE /\ pc' = "aborted"
                        /\ exitCode' = <<1>>
                        /\ abortedIn' = "scan"
                        /\ UNCHANGED <<idx, results>>
    /\ UNCHANGED <<configLines, configExists, sourceIsDir, tree, sourceKind,
                   config_options, report, reparsed, kconfigVars>>

\* main, lines 326-335: export_to_csv, print_summary and the normal end
Export ==
    /\ pc = "export"
    /\ report' = ReportRows(results)
    /\ pc' = "done"
    /\ exitCode' = <<0>>
    /\ UNCHANGED <<configLines, configExists, sourceIsDir, tree, sourceKind, cwd,
                   config_options, idx, results, outcomes, cwdAt, abortedIn,
                   reparsed, kconfigVars>>

\* Interrupt with a handler that writes the records gathered so far
InterruptFlush ==
    /\ pc \in {"analyze", "scan", "export"}
    /\ abortedIn' = pc
    /\ pc' = "aborted"
    /\ exitCode' = <<1>>
    /\ report' = ReportRows(results)
    /\ UNCHANGED <<configLines, configExists, sourceIsDir, tree, sourceKind, cwd,
                   config_options, idx, results, outcomes, cwdAt,
                   reparsed, kconfigVars>>

\* main, lines 337-339: KeyboardInterrupt while the try block runs
Interrupt ==
    /\ pc \in {"analyze", "scan", "export"}
    /\ abortedIn' = pc
    /\ pc' = "aborted"
    /\ exitCode' = <<1>>
    /\ UNCHANGED <<configLines, configExists, sourceIsDir, tree, sourceKind, cwd,
                   config_options, idx, results, outcomes, cwdAt, report,
                   reparsed, kconfigVars>>

-----------------------------------------------------------------------------
(* The inputs of a run.                                                    *)

\* lines a configuration file of a run is made of
RunLineChoices ==
    {Chars("CONFIG_NET=y"), Chars("CONFIG_NET_DHCP=y"), Chars("CONFIG_USB"),
     Chars("# CONFIG_USB is not set")}

SeqsUpTo(S, n) == UNION {[1..k -> S] : k \in 0..n}

File(path, lines) == [path |-> Chars(path), lines |-> lines]

NetMakefile == File("net/Makefile", <<Chars("obj-$(CONFIG_NET) += net.o dhcp.o")>>)

RootMakefile ==
    File("Makefile", <<Chars("obj-y += main.o"),
                       Chars("obj-$(CONFIG_NET_DHCP) += dhcp.o")>>)

NotesFile == File("net/notes.txt", <<Chars("obj-$(CONFIG_NET) lists net.o")>>)

DocFile == File("doc/Makefile.txt", <<Chars("obj-$(CONFIG_USB) += usb.o")>>)

UpperMakefile == File("drivers/MAKEFILE", <<Chars("obj-$(CONFIG_USB) += ehci.o")>>)

SepDirMakefile == File("a; b/Makefile", <<Chars("obj-$(CONFIG_USB) += usb.o hub.o")>>)

NestedMakefile == File("src/Makefile", <<Chars("obj-$(CONFIG_NET_DHCP) += lease.o")>>)

\* the source trees of the model
Trees ==
    { {},
      {NetMakefile},
      {RootMakefile, NotesFile},
      {DocFile, UpperMakefile},
      {SepDirMakefile},
      {NetMakefile, NestedMakefile} }

KconfigIdle ==
    /\ kOption = <<>>
    /\ kPattern = 0
    /\ kFiles = {}
    /\ kOutcomes = <<>>
    /\ kReturn = "idle"

Init ==
    /\ configLines \in SeqsUpTo(RunLineChoices, MaxRunLines)
    /\ configExists \in BOOLEAN
    /\ sourceIsDir \in BOOLEAN
    /\ tree \in Trees
    /\ sourceKind \in {"abs", "dot", "rel"}
    /\ cwd = IF sourceKind = "dot" THEN 1 ELSE 0
    /\ pc = "validate"
    /\ config_options = <<>>
    /\ idx = 0
    /\ results = <<>>
    /\ outcomes = <<>>
    /\ cwdAt = <<>>
    /\ report = NotWritten
    /\ exitCode = NoExit
    /\ abortedIn = "none"
    /\ reparsed = <<>>
    /\ KconfigIdle

Next ==
    \/ Validate
    \/ ParseConfig
    \/ ScanOption
    \/ Export
    \/ Interrupt

Spec == Init /\ [][Next]_vars

-----------------------------------------------------------------------------
(* parse_config_file called on its own, twice on the same file              *)

\* lines a configuration file of the parser specification is made of
ParseLineChoices ==
    {Chars("CONFIG_A=y"), Chars("CONFIG_A=m"), Chars("CONFIG_B"),
     Chars("  CONFIG_B=1 \t"), Chars("#CONFIG_A=y"), Chars(" # CONFIG_B"),
     Chars(""), Chars("  "), Chars("CONFIG_A="), Chars("CONFIG_=y"),
     Chars("CONFIG_a=y"), Chars("XCONFIG_A=y"), Chars("CONFIG_A =y"),
     Chars("CONFIG_A=x=1"), Chars("CONFIG_A2_=a b")}

InitParse ==
    /\ configLines \in SeqsUpTo(ParseLineChoices, MaxParseLines)
    /\ configExists \in BOOLEAN
    /\ sourceIsDir = TRUE
    /\ tree = {}
    /\ sourceKind = "abs"
    /\ cwd = 0
    /\ pc = "parse"
    /\ config_options = <<>>
    /\ idx = 0
    /\ results = <<>>
    /\ outcomes = <<>>
    /\ cwdAt = <<>>
    /\ report = NotWritten
    /\ exitCode = NoExit
    /\ abortedIn = "none"
    /\ reparsed = <<>>
    /\ KconfigIdle

\* the first call of parse_config_file: FileNotFoundError or the mapping
ParseCall ==
    /\ pc = "parse"
    /\ IF configExists
         THEN config_options' = ParseConfigFile(configLines) /\ pc' = "parsed"
         ELSE pc' = "raised" /\ UNCHANGED config_options
    /\ UNCHANGED <<configLines, reparsed, mainVars, kconfigVars>>

\* a second call on the same, unchanged file
ParseAgain ==
    /\ pc = "parsed"
    /\ reparsed' = ParseConfigFile(configLines)
    /\ pc' = "reparsed"
    /\ UNCHANGED <<configLines, config_options, mainVars, kconfigVars>>

NextParse ==
    \/ ParseCall
    \/ ParseAgain

SpecParse == InitParse /\ [][NextParse]_vars

-----------------------------------------------------------------------------
(* kconfig_analysis                                                        *)

\* s.replace(old, '')
RECURSIVE Remove(_, _)
Remove(s, old) ==
    LET at == FindFrom(s, old, 1)
    IN  IF at = 0 THEN s
        ELSE SubSeq(s, 1, at - 1) \o Remove(SubSeq(s, at + Len(old), Len(s)), old)

\* s.lstrip('./'): leading characters '.' and '/' removed
RECURSIVE LStripDotSlash(_)
LStripDotSlash(s) ==
    IF s # <<>> /\ Head(s) \in {".", "/"} THEN LStripDotSlash(Tail(s)) ELSE s

\* the list patterns of kconfig_analysis
KconfigPatterns(config_option) ==
    LET base_option == Remove(config_option, ConfigPrefix)
    IN  <<Chars("config ") \o base_option,
          Chars("select ") \o base_option,
          Chars("depends on ") \o config_option,
          config_option>>

\* the last component of a path
BaseName(path) == LET parts == Split(path, <<"/">>) IN parts[Len(parts)]

\* stdout of find . -name 'Kconfig*' -exec grep -l <pattern> {} + run at
\* depth d: the paths, each below "./" and ended by a newline, of the files
\* named Kconfig* that have a line containing the pattern
FindGrepStdout(files, d, pattern) ==
    LET hits == {f \in Visible(files, d) :
                    /\ StartsWith(BaseName(f.path), Chars("Kconfig"))
                    /\ \E n \in 1..Len(f.lines) : Contains(f.lines[n], pattern)}
        paths == Sorted({f.path : f \in hits})
        RECURSIVE Text(_)
        Text(k) ==
            IF k > Len(paths) THEN <<>>
            ELSE Chars("./") \o paths[k] \o <<"\n">> \o Text(k + 1)
    IN  Text(1)

\* what the loop over result.stdout.strip().split('\n') adds to files
KconfigEntries(stdout) ==
    LET ls == Split(Strip(stdout), <<"\n">>)
    IN  {LStripDotSlash(ls[k]) :
            k \in {j \in 1..Len(ls) : ls[j] # <<>> /\ ~StartsWith(ls[j], Chars(".git"))}}

\* what the environment can make of one find invocation: "run" (exit 0 with
\* matches, non-zero without), "error" (another non-zero exit), "timeout"
\* (TimeoutExpired) and "notool" (FileNotFoundError: no find executable)
KconfigToolOutcomes == {"run", "error", "timeout", "notool"}

\* the exceptions kconfig_analysis catches, as outcomes:
\* except (subprocess.CalledProcessError, subprocess.TimeoutExpired)
KconfigCaught == {"timeout"}

\* kconfig_analysis up to its loop: files = set() and os.chdir, whose OSError
\* no handler of the method catches
KconfigCall ==
    /\ kReturn = "idle"
    /\ LET moved == Chdir(sourceKind, tree, cwd)
       IN  /\ cwd' = moved.cwd
           /\ kFiles' = {}
           /\ IF moved.ok
                THEN kReturn' = "running" /\ kPattern' = 1 /\ UNCHANGED kOutcomes
                ELSE /\ kReturn' = "raised"
                     /\ kOutcomes' = <<"chdir_failed">>
                     /\ UNCHANGED kPattern
    /\ UNCHANGED <<configLines, configExists, sourceIsDir, tree, sourceKind, pc,
                   config_options, idx, results, outcomes, cwdAt, report,
                   exitCode, abortedIn, reparsed, kOption>>

\* one iteration of the loop over patterns; an exception ends the call, in
\* the handler (which leaves files as it is) or in the caller
KconfigSearch ==
    /\ kReturn = "running"
    /\ kPattern <= Len(KconfigPatterns(kOption))
    /\ \E tool \in KconfigToolOutcomes :
          LET stdout == FindGrepStdout(tree, cwd, KconfigPatterns(kOption)[kPattern])
          IN  /\ kOutcomes' = Append(kOutcomes, tool)
              /\ kFiles' = IF tool = "run" /\ stdout # <<>>
                             THEN kFiles \cup KconfigEntries(stdout)
                           ELSE kFiles
              /\ IF tool \in KconfigCaught
                   THEN kReturn' = "returned" /\ UNCHANGED kPattern
                 ELSE IF tool = "notool"
                   THEN kReturn' = "raised" /\ UNCHANGED kPattern
                 ELSE /\ kPattern' = kPattern + 1
                      /\ kReturn' = IF kPattern' > Len(KconfigPatterns(kOption))
                                      THEN "returned" ELSE "running"
    /\ UNCHANGED <<configLines, configExists, sourceIsDir, tree, sourceKind, cwd,
                   pc, config_options, idx, results, outcomes, cwdAt, report,
                   exitCode, abortedIn, reparsed, kOption>>

RootKconfig ==
    File("Kconfig", <<Chars("config NET"), Chars("select NET_DHCP")>>)

NetKconfig ==
    File("net/Kconfig", <<Chars("config NET_DHCP"), Chars("depends on CONFIG_NET")>>)

UsbKconfig == File("drivers/Kconfig.usb", <<Chars("if CONFIG_USB")>>)

GitKconfig == File(".git/Kconfig", <<Chars("config USB")>>)

\* the source trees of the kconfig_analysis specification
KconfigTrees ==
    { {},
      {RootKconfig, NetKconfig, NetMakefile},
      {UsbKconfig, GitKconfig} }

InitKconfig ==
    /\ configLines = <<>>
    /\ configExists = TRUE
    /\ sourceIsDir = TRUE
    /\ tree \in KconfigTrees
    /\ sourceKind \in {"abs", "dot", "rel"}
    /\ cwd \in IF sourceKind = "dot" THEN {1} ELSE {0, 1}
    /\ pc = "kconfig"
    /\ config_options = <<>>
    /\ idx = 0
    /\ results = <<>>
    /\ outcomes = <<>>
    /\ cwdAt = <<>>
    /\ report = NotWritten
    /\ exitCode = NoExit
    /\ abortedIn = "none"
    /\ reparsed = <<>>
    /\ kOption \in {Chars("CONFIG_NET"), Chars("CONFIG_NET_DHCP"), Chars("CONFIG_USB")}
    /\ kPattern = 0
    /\ kFiles = {}
    /\ kOutcomes = <<>>
    /\ kReturn = "idle"

NextKconfig ==
    \/ KconfigCall
    \/ KconfigSearch

SpecKconfig == InitKconfig /\ [][NextKconfig]_vars

-----------------------------------------------------------------------------
(* Properties.                                                             *)

\* analyze_configuration has returned to main
AnalyzeReturned ==
    \/ pc \in {"export", "done"}
    \/ pc = "aborted" /\ abortedIn = "export"

OptionsOf(d) == {d[i].option : i \in 1..Len(d)}

\* the ways the search of one option can fail
FailureOutcomes == {"chdir_failed", "timeout", "notool", "error"}

\* C1: when analyze_configuration returns, the option names of the result
\* mapping are exactly the keys of the parsed snapshot, one record per
\* option, whatever each per-option search did.
C1_OneRecordPerOption ==
    AnalyzeReturned =>
        /\ OptionsOf(results) = OptionsOf(config_options)
        /\ Len(results) = Len(config_options)
        /\ Cardinality(OptionsOf(results)) = Len(results)

C1_Witness ==
    /\ pc = "done"
    /\ Len(config_options) >= 2
    /\ \E i \in 1..Len(outcomes) : outcomes[i] \in {"timeout", "notool", "error"}
    /\ \E j \in 1..Len(results) : results[j].files # <<>>

\* the working directory after the chdir of the i-th scan, as the inputs of
\* the run alone determine it
RECURSIVE CwdAtScan(_)
CwdAtScan(i) ==
    IF i = 0 THEN (IF sourceKind = "dot" THEN 1 ELSE 0)
    ELSE Chdir(sourceKind, tree, CwdAtScan(i - 1)).cwd

\* C2: a failed search (timeout, no tool, failed chdir, non-zero exit) of an
\* option leaves that option with an empty artifact list, never ends the
\* run, leaves every other record what the inputs and that record's own
\* search make it, and a run that comes to its end has written a row for
\* every option and exits 0.
C2_FailedSearchIsLocal ==
    /\ \A i \in 1..Len(results) :
          /\ cwdAt[i] = CwdAtScan(i)
          /\ outcomes[i] \in FailureOutcomes => results[i].files = <<>>
          /\ outcomes[i] = "run" =>
                results[i].files =
                    Sorted(StdoutObjects(GitGrepStdout(tree, CwdAtScan(i),
                                                       results[i].option)))
    /\ Len(outcomes) > Len(results) =>
          /\ pc = "aborted"
          /\ outcomes[Len(outcomes)] \notin FailureOutcomes \cup {"run"}
    /\ pc = "scan" => idx = Len(results) + 1
    /\ pc = "done" =>
          /\ exitCode = <<0>>
          /\ Len(report) = Len(config_options) + 1
          /\ \A i \in 1..Len(config_options) :
                \E k \in 2..Len(report) : report[k][2] = config_options[i].option

C2_Witness ==
    /\ pc = "done"
    /\ exitCode = <<0>>
    /\ \E i, j \in 1..Len(results) :
          /\ i < j
          /\ outcomes[i] \in {"timeout", "notool"}
          /\ results[j].files # <<>>
          /\ \E k \in 2..Len(report) :
                report[k][2] = results[i].option /\ report[k][3] = <<>>

\* C3: the report is written only after every option of the snapshot has
\* been scanned, and a run aborted before or during the scan loop ends with
\* exit code 1 and no report row written.
C3_ReportAfterFullScan ==
    /\ report # NotWritten =>
          /\ Len(results) = Len(config_options)
          /\ idx > Len(config_options)
          /\ pc = "done"
    /\ pc = "aborted" /\ abortedIn \in {"analyze", "scan"} =>
          exitCode = <<1>> /\ report = NotWritten

C3_Witness ==
    /\ pc = "aborted"
    /\ abortedIn = "scan"
    /\ Len(results) >= 1
    /\ Len(results) < Len(config_options)
    /\ results[1].files # <<>>
    /\ exitCode = <<1>>

\* the trimmed line, stated without the stripping loops
TrimOf(l) ==
    LET solid == {i \in 1..Len(l) : l[i] \notin Whitespace}
    IN  IF solid = {} THEN <<>>
        ELSE SubSeq(l, CHOOSE a \in solid : \A b \in solid : a <= b,
                       CHOOSE a \in solid : \A b \in solid : a >= b)

\* the lengths n for which t[1..n] is a NAME and t is NAME or NAME=VALUE
NameEnds(t) ==
    {n \in (Len(ConfigPrefix) + 1)..Len(t) :
        /\ SubSeq(t, 1, Len(ConfigPrefix)) = ConfigPrefix
        /\ \A k \in (Len(ConfigPrefix) + 1)..n : IsNameChar(t[k])
        /\ \/ n = Len(t)
           \/ n + 2 <= Len(t) /\ t[n + 1] = "="}

IsOptionLine(t) == t # <<>> /\ t[1] # "#" /\ NameEnds(t) # {}

NameOfLine(t) == SubSeq(t, 1, CHOOSE n \in NameEnds(t) : TRUE)

ValueOfLine(t) ==
    LET n == CHOOSE m \in NameEnds(t) : TRUE
    IN  IF n = Len(t) THEN <<"y">> ELSE SubSeq(t, n + 2, Len(t))

\* C4: parse_config_file maps exactly the names of the lines that, trimmed,
\* are not blank, are no comment and read NAME or NAME=VALUE, each to the
\* VALUE of the last such line of that NAME ("y" when it has none), and a
\* second parse of the same lines gives the same mapping.
C4_ParseMapping ==
    LET trimmed == [i \in 1..Len(configLines) |-> TrimOf(configLines[i])]
        valid == {i \in 1..Len(configLines) : IsOptionLine(trimmed[i])}
        LastOf(name) ==
            CHOOSE i \in valid :
                /\ NameOfLine(trimmed[i]) = name
                /\ \A j \in valid : NameOfLine(trimmed[j]) = name => j <= i
    IN  /\ pc \in {"parsed", "reparsed"} =>
              /\ OptionsOf(config_options) = {NameOfLine(trimmed[i]) : i \in valid}
              /\ Cardinality(OptionsOf(config_options)) = Len(config_options)
              /\ \A k \in 1..Len(config_options) :
                    config_options[k].value =
                        ValueOfLine(trimmed[LastOf(config_options[k].option)])
        /\ pc = "reparsed" => reparsed = config_options

C4_Witness ==
    /\ pc = "reparsed"
    /\ Len(configLines) = 2
    /\ Len(config_options) = 1
    /\ TrimOf(configLines[1]) # TrimOf(configLines[2])
    /\ IsOptionLine(TrimOf(configLines[1]))
    /\ IsOptionLine(TrimOf(configLines[2]))
    /\ config_options[1].value = Chars("m")

\* the scenario of C5: snapshot {CONFIG_NET: "y"}, a tree whose net/Makefile
\* reads obj-$(CONFIG_NET) += net.o dhcp.o, and a search that git ran
NetScenario ==
    /\ pc = "done"
    /\ config_options = <<[option |-> Chars("CONFIG_NET"), value |-> <<"y">>]>>
    /\ tree = {NetMakefile}
    /\ outcomes = <<"run">>

LowerChar(c) ==
    IF c \in Upper
      THEN LET ups == Chars("ABCDEFGHIJKLMNOPQRSTUVWXYZ")
               lows == Chars("abcdefghijklmnopqrstuvwxyz")
           IN  lows[CHOOSE i \in 1..Len(ups) : ups[i] = c]
      ELSE c

\* a file that is itself named Makefile, in any letter case
IsBuildDescription(f) ==
    LET name == BaseName(f.path)
    IN  [i \in 1..Len(name) |-> LowerChar(name[i])] = Chars("makefile")

\* an occurrence of option in line that is no part of a longer name
ReferencesExactly(line, option) ==
    \E i \in 1..Len(line) :
        /\ i + Len(option) - 1 <= Len(line)
        /\ SubSeq(line, i, i + Len(option) - 1) = option
        /\ i > 1 => ~IsNameChar(line[i - 1])
        /\ i + Len(option) <= Len(line) => ~IsNameChar(line[i + Len(option)])

\* C6: an option that no line of any build-description file of the tree
\* references by exactly its name has an empty artifact list and an empty
\* Object Files cell.
C6_UnreferencedOptionEmpty ==
    \A i \in 1..Len(results) :
        (\A f \in {g \in tree : IsBuildDescription(g)} :
            \A n \in 1..Len(f.lines) :
                ~ReferencesExactly(f.lines[n], results[i].option))
        => /\ results[i].files = <<>>
           /\ pc = "done" =>
                 \A k \in 2..Len(report) :
                     report[k][2] = results[i].option => report[k][3] = <<>>

\* the layout of the report: the header, then one row per record in
\* ascending order of option name, each NO, the option, and the record's
\* sorted artifacts joined with "; "
ReportLayout ==
    /\ report[1] = HeaderRow
    /\ Len(report) = Len(results) + 1
    /\ \A k \in 2..Len(report) :
          /\ report[k][1] = Chars("NO")
          /\ \E i \in 1..Len(results) :
                /\ results[i].option = report[k][2]
                /\ report[k][3] = Join(results[i].files, Chars("; "))
                /\ \A a, b \in 1..Len(results[i].files) :
                      a < b => StrLess(results[i].files[a], results[i].files[b])
          /\ \A l \in 2..Len(report) : k < l => StrLess(report[k][2], report[l][2])

RecordOfRow(k) == CHOOSE r \in {results[i] : i \in 1..Len(results)} : r.option = report[k][2]

\* C7 (as amended): the report has the layout above, and splitting a
\* non-empty cell on "; " gives back the record's sorted artifact list when
\* no artifact of the record contains "; ".
C7_ReportRoundTrip ==
    pc = "done" =>
        /\ ReportLayout
        /\ \A k \in 2..Len(report) :
              (/\ report[k][3] # <<>>
               /\ \A a \in 1..Len(RecordOfRow(k).files) :
                     ~Contains(RecordOfRow(k).files[a], Chars("; ")))
              => Split(report[k][3], Chars("; ")) = RecordOfRow(k).files

\* C7 (as claimed): splitting any non-empty cell on "; " gives back the
\* record's sorted artifact list.
C7_ReportRoundTripAlways ==
    pc = "done" =>
        /\ ReportLayout
        /\ \A k \in 2..Len(report) :
              report[k][3] # <<>>
              => Split(report[k][3], Chars("; ")) = RecordOfRow(k).files

C7_Witness ==
    /\ pc = "done"
    /\ Len(report) = 3
    /\ Len(RecordOfRow(2).files) >= 2
    /\ Split(report[2][3], Chars("; ")) = RecordOfRow(2).files
    /\ results[1].option = report[3][2]

\* C8: a kconfig_analysis call in which a search failed (timeout, no tool,
\* failed chdir) returns the empty set and raises nothing.
C8_KconfigFailureEmpty ==
    (/\ kReturn \in {"returned", "raised"}
     /\ \E i \in 1..Len(kOutcomes) :
           kOutcomes[i] \in {"timeout", "notool", "chdir_failed"})
    => kReturn = "returned" /\ kFiles = {}

\* C9: every search runs with the source tree root as working directory, so
\* an option's artifacts are those a search at the root gives, however many
\* options were scanned before it.
C9_SearchAtTreeRoot ==
    \A i \in 1..Len(results) :
        /\ outcomes[i] # "chdir_failed" => cwdAt[i] = 1
        /\ outcomes[i] \in {"run", "chdir_failed"} =>
              results[i].files =
                  Sorted(StdoutObjects(GitGrepStdout(tree, 1, results[i].option)))

\* C10: every artifact of a record was extracted from a matched line of a
\* file that is itself named Makefile (in any letter case).
C10_OnlyFromMakefiles ==
    \A i \in 1..Len(results) :
        \A a \in 1..Len(results[i].files) :
            results[i].files[a] \in
                StdoutObjects(GitGrepStdout({f \in tree : IsBuildDescription(f)},
                                            cwdAt[i], results[i].option))

====
